---- MODULE Spec2Model ----
(***************************************************************************)
(* Web-based tuner: the note-recognition module (note-recognition.js), the *)
(* pitch estimators (pitch-detection.js), the page's script (main.js) and  *)
(* the particles of the canvas (visualization.js).                         *)
(*                                                                         *)
(* Numbers.  A frequency is the real number  mant * 2^(exp/2400)  Hz, kept *)
(* as the record [mant, exp]: mant is a whole number of Hz and exp counts  *)
(* half-cents (1/2400 octave).  mant <= 0 is a non-positive frequency      *)
(* (0, or the estimator's -1 sentinel).  A number of half steps is kept in *)
(* half-cents too (200 half-cents = 1 half step), rounded down to a whole  *)
(* half-cent; every rounding the code performs (Math.round to a half step, *)
(* Math.round to a cent) is decided by that floor, so the model computes   *)
(* the same integers as exact real arithmetic.                             *)
(*                                                                         *)
(* JavaScript values that may be null or undefined are tagged records.     *)
(***************************************************************************)
EXTENDS Integers, Sequences, FiniteSets, TLC

\* a call of one of the library's functions: its name, arguments, position,
\* what it returned and what it computed on the way
VARIABLES op, args, pc, ret, locals

\* the page: the variables of main.js, the elements it writes, what the
\* browser holds for it (pending promises, scheduled frames, the audio graph)
\* and the last run of processAudio
VARIABLES globals, dom, browser, lastTick

\* the canvas: the variables of visualization.js and p5's count of frames
VARIABLES visualization

callVars == <<op, args, pc, ret, locals>>

pageVars == <<globals, dom, browser, lastTick, visualization>>

vars == <<op, args, pc, ret, locals, globals, dom, browser, lastTick, visualization>>

-----------------------------------------------------------------------------
(* Bounds of the inputs.                                                   *)

\* frequencies are taken up to MaxE half-cents either side of each anchor
MaxE == 110
\* octaves passed to frequencyFromNote range over -MaxOctave..MaxOctave
MaxOctave == 8
\* the two frequencies of a comparison are at most MaxGap half-cents apart
MaxGap == 2

-----------------------------------------------------------------------------
(* JavaScript values.                                                      *)

Null == [t |-> "null"]
Undefined == [t |-> "undefined"]
Str(s) == [t |-> "string", v |-> s]
Num(n) == [t |-> "number", v |-> n]
JSNaN == [t |-> "NaN"]

\* !v is false exactly for the truthy values
Truthy(v) ==
    CASE v.t = "null" -> FALSE
      [] v.t = "undefined" -> FALSE
      [] v.t = "string" -> v.v # ""
      [] v.t = "number" -> v.v # 0
      [] v.t = "NaN" -> FALSE
      [] OTHER -> TRUE

\* a frequency of mant * 2^(exp/2400) Hz
Hz(mant, exp) == [mant |-> mant, exp |-> exp]

\* a % b of JavaScript: the remainder takes the sign of the dividend
JSRemainder(a, b) == IF a >= 0 THEN a % b ELSE -((-a) % b)

\* arr[i] of JavaScript on a 0-indexed array: undefined outside 0..length-1
ArrayGet(arr, i) == IF i \in 0..(Len(arr) - 1) THEN Str(arr[i + 1]) ELSE Undefined

\* arr.indexOf(x): strict equality, -1 when absent
IndexOf(arr, x) ==
    IF x.t = "string" /\ \E i \in 1..Len(arr) : arr[i] = x.v
    THEN (CHOOSE i \in 1..Len(arr) : arr[i] = x.v /\ \A j \in 1..(i - 1) : arr[j] # x.v) - 1
    ELSE -1

\* Math.round(x) = floor(x + 1/2), for x = num/den with den > 0 even
MathRound(num, den) == (num + (den \div 2)) \div den

-----------------------------------------------------------------------------
(* The inputs.                                                             *)

\* reference frequencies: the default and the ends of the input's range
Refs == {420, 440, 460}

\* anchors of the frequencies tried, in Hz
Mantissas == {8, 15, 82, 262, 420, 440, 460, 1000}

\* <<m, R, floor(2400 * log2(m / R))>> for every anchor m and reference R,
\* and for the reference 500 a user can type into the page
LOG2_TABLE == {
    <<8, 420, -13715>>, <<8, 440, -13876>>, <<8, 460, -14030>>,
    <<15, 420, -11538>>, <<15, 440, -11699>>, <<15, 460, -11853>>,
    <<82, 420, -5657>>, <<82, 440, -5818>>, <<82, 460, -5972>>,
    <<262, 420, -1634>>, <<262, 440, -1796>>, <<262, 460, -1949>>,
    <<420, 420, 0>>, <<420, 440, -162>>, <<420, 460, -315>>,
    <<440, 420, 161>>, <<440, 440, 0>>, <<440, 460, -154>>,
    <<460, 420, 314>>, <<460, 440, 153>>, <<460, 460, 0>>,
    <<1000, 420, 3003>>, <<1000, 440, 2842>>, <<1000, 460, 2688>>,
    <<8, 500, -14318>>, <<15, 500, -12142>>, <<82, 500, -6260>>, <<262, 500, -2238>>,
    <<420, 500, -604>>, <<440, 500, -443>>, <<460, 500, -289>>, <<1000, 500, 2400>>
}

PositiveFrequencies == { Hz(m, e) : m \in Mantissas, e \in (-MaxE)..MaxE }

\* 0 and the estimator's no-pitch sentinel -1
NonPositiveFrequencies == { Hz(0, 0), Hz(-1, 0) }

Frequencies == PositiveFrequencies \cup NonPositiveFrequencies

Octaves == (-MaxOctave)..MaxOctave

-----------------------------------------------------------------------------
(* note-recognition.js                                                     *)

NOTE_NAMES == <<"C", "C#", "D", "D#", "E", "F", "F#", "G", "G#", "A", "A#", "B">>

ValidNotes == { Str(NOTE_NAMES[i]) : i \in 1..Len(NOTE_NAMES) }

\* names frequencyFromNote does not recognise
InvalidNotes == { Str("H"), Str("Bb"), Str("c"), Str("A4"), Str(""), Null, Undefined }

\* floor(2400 * Math.log2(frequency / referenceFrequency)), frequency > 0
Log2HalfCents(frequency, referenceFrequency) ==
    frequency.exp
      + (CHOOSE t \in LOG2_TABLE : t[1] = frequency.mant /\ t[2] = referenceFrequency)[3]

\* referenceFrequency * Math.pow(2, halfSteps / 12)
Pow2HalfSteps(referenceFrequency, halfSteps) == Hz(referenceFrequency, 200 * halfSteps)

\* the guard of noteFromFrequency: !frequency || frequency <= 0
invalidInput(frequency) == frequency.mant <= 0

\* mutant: the guard returns an object without note and octave
noNote_undefined == [note |-> Undefined, octave |-> Undefined, cents |-> 0]

\* what noteFromFrequency returns for an invalid input
noNote == [note |-> Null, octave |-> Null, cents |-> 0]

\* 12 * Math.log2(frequency / referenceFrequency), in half-cents
exactHalfStepsFromA4(frequency, referenceFrequency) ==
    Log2HalfCents(frequency, referenceFrequency)

\* mutant: Math.floor instead of Math.round
halfStepsFromA4_floor(frequency, referenceFrequency) ==
    Log2HalfCents(frequency, referenceFrequency) \div 200

\* Math.round(12 * Math.log2(frequency / referenceFrequency))
halfStepsFromA4(frequency, referenceFrequency) ==
    MathRound(Log2HalfCents(frequency, referenceFrequency), 200)

\* mutant: Math.floor instead of Math.round
cents_floor(frequency, referenceFrequency) ==
    (exactHalfStepsFromA4(frequency, referenceFrequency)
       - 200 * halfStepsFromA4(frequency, referenceFrequency)) \div 2

\* Math.round((exactHalfStepsFromA4 - halfStepsFromA4) * 100)
cents(frequency, referenceFrequency) ==
    MathRound(exactHalfStepsFromA4(frequency, referenceFrequency)
                - 200 * halfStepsFromA4(frequency, referenceFrequency), 2)

\* mutant: the 0-indexed position 56 of A4 instead of 57
noteIndex_56(halfSteps) == JSRemainder(halfSteps + 56, 12)

\* (halfStepsFromA4 + 57) % 12
noteIndex(halfSteps) == JSRemainder(halfSteps + 57, 12)

\* mutant: the 0-indexed position 56 of A4 instead of 57
octave_56(halfSteps) == (halfSteps + 56) \div 12

\* Math.floor((halfStepsFromA4 + 57) / 12)
octave(halfSteps) == (halfSteps + 57) \div 12

noteFromFrequency(frequency, referenceFrequency) ==
    IF invalidInput(frequency)
    THEN noNote
    ELSE [note   |-> ArrayGet(NOTE_NAMES, noteIndex(halfStepsFromA4(frequency, referenceFrequency))),
          octave |-> Num(octave(halfStepsFromA4(frequency, referenceFrequency))),
          cents  |-> cents(frequency, referenceFrequency)]

\* the outcome of a call that may throw
Returned(v) == [threw |-> FALSE, value |-> v]
Thrown(msg) == [threw |-> TRUE, error |-> msg]

\* mutant: if (!noteIndex) instead of noteIndex === -1
invalidNoteName_falsy(note) == IndexOf(NOTE_NAMES, note) = 0

\* noteIndex === -1 in frequencyFromNote
invalidNoteName(note) == IndexOf(NOTE_NAMES, note) = -1

frequencyFromNote(note, oct, referenceFrequency) ==
    IF invalidNoteName(note)
    THEN Thrown("Invalid note name")
    ELSE Returned(Pow2HalfSteps(referenceFrequency,
                                IndexOf(NOTE_NAMES, note) + (oct * 12) - 57))

getClosestNote(frequency, referenceFrequency) ==
    LET r == noteFromFrequency(frequency, referenceFrequency) IN
    IF ~Truthy(r.note)
    THEN Returned(Null)
    ELSE LET exactFrequency == frequencyFromNote(r.note, r.octave.v, referenceFrequency) IN
         IF exactFrequency.threw
         THEN exactFrequency
         ELSE Returned([t |-> "object", note |-> r.note, octave |-> r.octave,
                        frequency |-> exactFrequency.value, cents |-> r.cents])

\* frequencyFromNote(name, oct) of the table: the reference defaults to 440
defaultFrequency(name, oct) == frequencyFromNote(Str(name), oct, 440).value

\* the object literal of getInstrumentReferences
references ==
    [guitar |-> [t |-> "object",
                 strings |-> <<"E2", "A2", "D3", "G3", "B3", "E4">>,
                 frequencies |-> <<defaultFrequency("E", 2), defaultFrequency("A", 2),
                                   defaultFrequency("D", 3), defaultFrequency("G", 3),
                                   defaultFrequency("B", 3), defaultFrequency("E", 4)>>],
     bass |-> [t |-> "object",
               strings |-> <<"E1", "A1", "D2", "G2">>,
               frequencies |-> <<defaultFrequency("E", 1), defaultFrequency("A", 1),
                                 defaultFrequency("D", 2), defaultFrequency("G", 2)>>],
     violin |-> [t |-> "object",
                 strings |-> <<"G3", "D4", "A4", "E5">>,
                 frequencies |-> <<defaultFrequency("G", 3), defaultFrequency("D", 4),
                                   defaultFrequency("A", 4), defaultFrequency("E", 5)>>],
     ukulele |-> [t |-> "object",
                  strings |-> <<"G4", "C4", "E4", "A4">>,
                  frequencies |-> <<defaultFrequency("G", 4), defaultFrequency("C", 4),
                                    defaultFrequency("E", 4), defaultFrequency("A", 4)>>]]

\* the properties an object literal inherits from Object.prototype
ObjectPrototypeProperties ==
    {"constructor", "toString", "toLocaleString", "valueOf", "hasOwnProperty",
     "isPrototypeOf", "propertyIsEnumerable", "__proto__"}

\* references[instrument]: own properties first, then the prototype chain
referencesGet(instrument) ==
    IF instrument \in DOMAIN references
    THEN references[instrument]
    ELSE IF instrument \in ObjectPrototypeProperties
         THEN [t |-> "inherited", name |-> instrument]
         ELSE Undefined

\* references[instrument] || null
getInstrumentReferences(instrument) ==
    IF Truthy(referencesGet(instrument)) THEN referencesGet(instrument) ELSE Null

\* the identifiers looked up
Instruments ==
    {"guitar", "bass", "violin", "ukulele", "unknown", "piano", "", "Guitar",
     "constructor", "toString"}

-----------------------------------------------------------------------------
(* main.js: the values of the page.  The frequencies processAudio gets     *)
(* from the estimator are whole numbers of Hz here, or not positive.       *)

\* bounds: the frames requestAnimationFrame hands out and the calls of
\* getUserMedia
MaxFrames == 4
MaxStreams == 2

\* an audio node or the audio context
Object(id) == [t |-> "object", id |-> id]

\* parseFloat of the text of a number input: the number whose decimal
\* numeral the text is, NaN for a text that is no numeral
parseFloat(text) ==
    IF \E n \in 0..999 : ToString(n) = text
    THEN Num(CHOOSE n \in 0..999 : ToString(n) = text)
    ELSE JSNaN

\* frequency.toFixed(2) of a whole number of Hz
ToFixed2(frequency) == ToString(frequency.mant) \o ".00"

\* cents.toFixed(0) of a whole number
ToFixed0(n) == ToString(n)

\* what the user can leave in the reference input: the HTML range 420..460
\* limits the arrows, not the text typed, and an emptied input has value ""
InputTexts == {"420", "440", "460", "500", ""}

\* what detectPitch hands to processAudio: the sentinel -1, a frequency,
\* another negative number
NoPitch == Hz(-1, 0)
Estimates == { NoPitch, Hz(-150, 0), Hz(82, 0), Hz(440, 0) }

\* noteFromFrequency(frequency, reference) for a reference that is a
\* JavaScript number: Math.log2 of a NaN quotient is NaN, and NOTE_NAMES[NaN]
\* is undefined
noteFromFrequencyOf(frequency, reference) ==
    IF invalidInput(frequency)
    THEN noNote
    ELSE IF reference = JSNaN
         THEN [note |-> Undefined, octave |-> JSNaN, cents |-> JSNaN]
         ELSE noteFromFrequency(frequency, reference.v)

\* the colour of the meter: Math.abs(cents) < 5, < 15, else
meterColor(c) ==
    IF c > -5 /\ c < 5 THEN "var(--success-color)"
    ELSE IF c > -15 /\ c < 15 THEN "var(--accent-color)"
    ELSE "var(--error-color)"

\* Math.max(0, Math.min(100, 50 + (cents / 50) * 50)), in percent
meterLeft(c) ==
    LET position == 50 + c IN
    IF position < 0 THEN 0 ELSE IF position > 100 THEN 100 ELSE position

\* the elements as updateDisplay resets them
resetDisplay(d) ==
    [d EXCEPT !.noteName = "--", !.octave = "-", !.frequencyDisplay = "0 Hz",
              !.centsDeviation = "0 cents", !.meterLeft = 50,
              !.meterColor = "var(--accent-color)"]

\* updateDisplay(note, octave, frequency, cents) on the elements d
updateDisplay(d, note, oct, frequency, c) ==
    IF Truthy(note) /\ Truthy(oct) /\ frequency # Null /\ frequency.mant # 0
    THEN [d EXCEPT !.noteName = note.v, !.octave = ToString(oct.v),
                   !.frequencyDisplay = ToFixed2(frequency) \o " Hz",
                   !.centsDeviation = ToFixed0(c) \o " cents",
                   !.meterLeft = meterLeft(c), !.meterColor = meterColor(c)]
    ELSE resetDisplay(d)

\* the page as the HTML gives it
Page ==
    [startButton |-> "Start Tuner", noteName |-> "--", octave |-> "-",
     frequencyDisplay |-> "0 Hz", centsDeviation |-> "0 cents", meterLeft |-> 50,
     meterColor |-> "", referenceFreqInput |-> "440", alert |-> FALSE]

\* the module's variables as declared
Globals ==
    [audioContext |-> Undefined, analyzer |-> Undefined, microphone |-> Undefined,
     isListening |-> FALSE, animationFrameId |-> Undefined, referenceFrequency |-> Num(440)]

\* nothing pending, no audio node yet
Browser ==
    [requests |-> 0, asked |-> 0, streams |-> 0, connections |-> {},
     frames |-> {}, nextFrameId |-> 1]

NoTick == [frequency |-> Null, result |-> Null]

\* the variables of visualization.js as declared, before the first frame
Visualization == [currentVisualization |-> "waveform", particles |-> <<>>, frameCount |-> 0]

\* the page after init(): updateDisplay(null, null, null)
PageLoaded ==
    /\ globals = Globals
    /\ dom = updateDisplay(Page, Null, Null, Null, 0)
    /\ browser = Browser
    /\ lastTick = NoTick
    /\ visualization = Visualization

-----------------------------------------------------------------------------
(* The calls.  Init draws one call and its arguments; the action of that   *)
(* call evaluates it and records what it returned.                         *)

NoLocals == [halfStepsFromA4 |-> <<>>, noteIndex |-> <<>>, tableReads |-> 0]

NoteFromFrequencyArgs ==
    { [frequency |-> f, referenceFrequency |-> R] : f \in Frequencies, R \in Refs }

FrequencyFromNoteArgs ==
    { [note |-> n, octave |-> k, referenceFrequency |-> R] :
        n \in ValidNotes \cup InvalidNotes, k \in Octaves, R \in Refs }

RoundTripArgs ==
    { [note |-> n, octave |-> k, referenceFrequency |-> R] :
        n \in ValidNotes, k \in Octaves, R \in Refs }

OctaveBoundaryArgs ==
    { [octave |-> k, referenceFrequency |-> R] : k \in Octaves, R \in Refs }

CompareArgs ==
    { [frequency |-> f, frequency2 |-> Hz(f.mant, f.exp + d), referenceFrequency |-> R] :
        f \in PositiveFrequencies, d \in 0..MaxGap, R \in Refs }

InstrumentArgs == { [instrument |-> i] : i \in Instruments }

Init ==
    /\ PageLoaded
    /\ pc = "call"
    /\ ret = Null
    /\ locals = NoLocals
    /\ \/ op = "noteFromFrequency" /\ args \in NoteFromFrequencyArgs
       \/ op = "frequencyFromNote" /\ args \in FrequencyFromNoteArgs
       \/ op = "getClosestNote" /\ args \in NoteFromFrequencyArgs
       \/ op = "getInstrumentReferences" /\ args \in InstrumentArgs
       \/ op = "roundTrip" /\ args \in RoundTripArgs
       \/ op = "octaveBoundary" /\ args \in OctaveBoundaryArgs
       \/ op = "compare" /\ args \in CompareArgs

\* what a call of noteFromFrequency computes on the way: the rounded half
\* steps and the note index (none before the guard) and how often it indexed
\* NOTE_NAMES
NoteFromFrequencyLocals(frequency, referenceFrequency) ==
    IF invalidInput(frequency)
    THEN NoLocals
    ELSE [halfStepsFromA4 |-> <<halfStepsFromA4(frequency, referenceFrequency)>>,
          noteIndex |-> <<noteIndex(halfStepsFromA4(frequency, referenceFrequency))>>,
          tableReads |-> 1]

CallNoteFromFrequency ==
    /\ pc = "call" /\ op = "noteFromFrequency"
    /\ ret' = noteFromFrequency(args.frequency, args.referenceFrequency)
    /\ locals' = NoteFromFrequencyLocals(args.frequency, args.referenceFrequency)
    /\ pc' = "return"
    /\ UNCHANGED <<op, args>>
    /\ UNCHANGED pageVars

CallFrequencyFromNote ==
    /\ pc = "call" /\ op = "frequencyFromNote"
    /\ ret' = frequencyFromNote(args.note, args.octave, args.referenceFrequency)
    /\ pc' = "return"
    /\ UNCHANGED <<op, args, locals>>
    /\ UNCHANGED pageVars

CallGetClosestNote ==
    /\ pc = "call" /\ op = "getClosestNote"
    /\ ret' = getClosestNote(args.frequency, args.referenceFrequency)
    /\ locals' = NoteFromFrequencyLocals(args.frequency, args.referenceFrequency)
    /\ pc' = "return"
    /\ UNCHANGED <<op, args>>
    /\ UNCHANGED pageVars

CallGetInstrumentReferences ==
    /\ pc = "call" /\ op = "getInstrumentReferences"
    /\ ret' = getInstrumentReferences(args.instrument)
    /\ pc' = "return"
    /\ UNCHANGED <<op, args, locals>>
    /\ UNCHANGED pageVars

\* noteFromFrequency(frequencyFromNote(note, octave, R), R)
CallRoundTrip ==
    /\ pc = "call" /\ op = "roundTrip"
    /\ LET f == frequencyFromNote(args.note, args.octave, args.referenceFrequency).value IN
         /\ ret' = noteFromFrequency(f, args.referenceFrequency)
         /\ locals' = NoteFromFrequencyLocals(f, args.referenceFrequency)
    /\ pc' = "return"
    /\ UNCHANGED <<op, args>>
    /\ UNCHANGED pageVars

\* the frequency one half step above f: f * 2^(1/12)
HalfStepAbove(f) == Hz(f.mant, f.exp + 200)

\* noteFromFrequency of the half step above B of the octave
CallOctaveBoundary ==
    /\ pc = "call" /\ op = "octaveBoundary"
    /\ LET f == HalfStepAbove(frequencyFromNote(Str("B"), args.octave,
                                                args.referenceFrequency).value) IN
         /\ ret' = noteFromFrequency(f, args.referenceFrequency)
         /\ locals' = NoteFromFrequencyLocals(f, args.referenceFrequency)
    /\ pc' = "return"
    /\ UNCHANGED <<op, args>>
    /\ UNCHANGED pageVars

\* noteFromFrequency of two frequencies under one reference
CallCompare ==
    /\ pc = "call" /\ op = "compare"
    /\ ret' = <<noteFromFrequency(args.frequency, args.referenceFrequency),
                noteFromFrequency(args.frequency2, args.referenceFrequency)>>
    /\ locals' = <<NoteFromFrequencyLocals(args.frequency, args.referenceFrequency),
                   NoteFromFrequencyLocals(args.frequency2, args.referenceFrequency)>>
    /\ pc' = "return"
    /\ UNCHANGED <<op, args>>
    /\ UNCHANGED pageVars

Next ==
    \/ CallNoteFromFrequency
    \/ CallFrequencyFromNote
    \/ CallGetClosestNote
    \/ CallGetInstrumentReferences
    \/ CallRoundTrip
    \/ CallOctaveBoundary
    \/ CallCompare

Spec == Init /\ [][Next]_vars

-----------------------------------------------------------------------------
(* Numbers of pitch-detection.js.  A sample is level / 32 for a whole      *)
(* level, and every number computed from the samples is an exact rational  *)
(* [k = "q", n, d] in lowest terms with d > 0, or NaN, or an infinity; the *)
(* rounding of Float32Array and of doubles is left out.  Reading an array  *)
(* outside its bounds gives undefined, which every comparison and every    *)
(* arithmetic operation of the code treats as NaN.                         *)

\* the samples of a window are level / 32 for levels in -MaxLevel..MaxLevel
MaxLevel == 2
\* windows have up to MaxLen samples: the short ones mix every level, the
\* longer ones are a waveform of -1, 0, 1 played at one level of 1..MaxLevel
MaxLen == 6

Abs(x) == IF x < 0 THEN -x ELSE x

RECURSIVE GCD(_, _)
GCD(a, b) == IF b = 0 THEN a ELSE GCD(b, a % b)

\* the rational n / d, d # 0
Q(n, d) ==
    LET g == GCD(Abs(n), Abs(d))
        s == IF d < 0 THEN -1 ELSE 1
    IN  [k |-> "q", n |-> (s * n) \div g, d |-> (s * d) \div g]

NaN == [k |-> "nan"]
Inf(s) == [k |-> "inf", s |-> s]

Sign(x) == IF x.k = "inf" THEN x.s ELSE IF x.n > 0 THEN 1 ELSE IF x.n < 0 THEN -1 ELSE 0

Neg(x) ==
    CASE x.k = "nan" -> NaN
      [] x.k = "inf" -> Inf(-x.s)
      [] OTHER -> Q(-x.n, x.d)

\* x + y
Add(x, y) ==
    CASE x.k = "nan" \/ y.k = "nan" -> NaN
      [] x.k = "inf" /\ y.k = "inf" -> IF x.s = y.s THEN x ELSE NaN
      [] x.k = "inf" -> x
      [] y.k = "inf" -> y
      [] OTHER -> Q(x.n * y.d + y.n * x.d, x.d * y.d)

Sub(x, y) == Add(x, Neg(y))

\* x * y
Mul(x, y) ==
    CASE x.k = "nan" \/ y.k = "nan" -> NaN
      [] x.k = "inf" \/ y.k = "inf" ->
            IF Sign(x) * Sign(y) = 0 THEN NaN ELSE Inf(Sign(x) * Sign(y))
      [] OTHER -> Q(x.n * y.n, x.d * y.d)

\* x / y; a zero divisor is +0
Div(x, y) ==
    CASE x.k = "nan" \/ y.k = "nan" -> NaN
      [] x.k = "inf" /\ y.k = "inf" -> NaN
      [] x.k = "inf" -> IF Sign(y) < 0 THEN Inf(-x.s) ELSE x
      [] y.k = "inf" -> Q(0, 1)
      [] y.n = 0 -> IF x.n = 0 THEN NaN ELSE Inf(Sign(x))
      [] OTHER -> Q(x.n * y.d, x.d * y.n)

\* x < y, false when either is NaN
Lt(x, y) ==
    CASE x.k = "nan" \/ y.k = "nan" -> FALSE
      [] x.k = "inf" /\ y.k = "inf" -> x.s < y.s
      [] x.k = "inf" -> x.s < 0
      [] y.k = "inf" -> y.s > 0
      [] OTHER -> x.n * y.d < y.n * x.d

\* x <= y and x >= y, false when either is NaN
Le(x, y) == x.k # "nan" /\ y.k # "nan" /\ ~Lt(y, x)
Ge(x, y) == Le(y, x)

IsFinite(x) == x.k = "q"

\* Math.floor(a / b) and Math.ceil(a / b) for whole a and b > 0
MathFloorDiv(a, b) == a \div b
MathCeilDiv(a, b) == -((-a) \div b)

\* the sample buffer[i]
Sample(buffer, i) == Q(buffer[i + 1], 32)

\* arr[i] of a Float32Array kept as a sequence: undefined outside its bounds
F32Get(arr, i) == IF i \in 0..(Len(arr) - 1) THEN arr[i + 1] ELSE NaN

\* the sum of f[i] for i in lo..hi
RECURSIVE SumOver(_, _, _)
SumOver(f, lo, hi) == IF lo > hi THEN Q(0, 1) ELSE Add(f[lo], SumOver(f, lo + 1, hi))

-----------------------------------------------------------------------------
(* pitch-detection.js: detectPitch                                         *)

\* the estimator's no-pitch sentinel -1
NONE == Q(-1, 1)

MIN_FREQUENCY == 50
MAX_FREQUENCY == 1500

\* mutant: a threshold of 0.02
CLARITY_THRESHOLD_002 == Q(1, 50)

\* THRESHOLD of detectPitch: 0.2
CLARITY_THRESHOLD == Q(1, 5)

\* the silence threshold 0.001
SILENCE_THRESHOLD == Q(1, 1000)

\* the sum of buffer[i] * buffer[i], divided by bufferLength
signalEnergy(buffer) ==
    Div(SumOver([i \in 0..(Len(buffer) - 1) |-> Mul(Sample(buffer, i), Sample(buffer, i))],
                0, Len(buffer) - 1),
        Q(Len(buffer), 1))

\* mutant: the sum of the squares is not divided by bufferLength
tooQuiet_sum(buffer) ==
    Lt(Mul(signalEnergy(buffer), Q(Len(buffer), 1)), SILENCE_THRESHOLD)

\* signalEnergy < 0.001
tooQuiet(buffer) == Lt(signalEnergy(buffer), SILENCE_THRESHOLD)

\* correlations[lag]: the sum of buffer[i] * buffer[i + lag] over
\* i < bufferLength - lag, divided by bufferLength - lag
correlation(buffer, lag) ==
    Div(SumOver([i \in 0..(Len(buffer) - lag - 1) |->
                    Mul(Sample(buffer, i), Sample(buffer, i + lag))],
                0, Len(buffer) - lag - 1),
        Q(Len(buffer) - lag, 1))

correlations(buffer) == [l \in 1..Len(buffer) |-> correlation(buffer, l - 1)]

minPeriod(sampleRate) == MathFloorDiv(sampleRate, MAX_FREQUENCY)
maxPeriod(sampleRate) == MathCeilDiv(sampleRate, MIN_FREQUENCY)

\* the loop of the peak search from period on; best = [bestPeriod, bestCorrelation]
RECURSIVE findPeak(_, _, _, _)
findPeak(corr, period, end, best) ==
    IF ~(period < end)
    THEN best
    ELSE IF Lt(best.bestCorrelation, F32Get(corr, period))
         THEN findPeak(corr, period + 1, end,
                       [bestPeriod |-> period, bestCorrelation |-> F32Get(corr, period)])
         ELSE findPeak(corr, period + 1, end, best)

bestPeak(corr, sampleRate) ==
    findPeak(corr, minPeriod(sampleRate), maxPeriod(sampleRate),
             [bestPeriod |-> -1, bestCorrelation |-> Q(0, 1)])

\* bestCorrelation / correlations[0]
normalizedCorrelation(corr, best) == Div(best.bestCorrelation, F32Get(corr, 0))

\* normalizedCorrelation < THRESHOLD
tooWeak(corr, best) == Lt(normalizedCorrelation(corr, best), CLARITY_THRESHOLD)

\* 0.5 * (leftCorr - rightCorr) / (leftCorr - 2 * centerCorr + rightCorr)
peakOffset(leftCorr, centerCorr, rightCorr) ==
    Div(Mul(Q(1, 2), Sub(leftCorr, rightCorr)),
        Add(Sub(leftCorr, Mul(Q(2, 1), centerCorr)), rightCorr))

\* the parabolic interpolation around bestPeriod
refinedPeriod(corr, bestPeriod) ==
    IF bestPeriod > 0 /\ bestPeriod < Len(corr) - 1
    THEN Add(Q(bestPeriod, 1),
             peakOffset(F32Get(corr, bestPeriod - 1), F32Get(corr, bestPeriod),
                        F32Get(corr, bestPeriod + 1)))
    ELSE Q(bestPeriod, 1)

\* the locals of a call of detectPitch, the return statement it left by and
\* what it returned; no correlation is computed before the energy check
detectPitchRun(buffer, sampleRate) ==
    IF tooQuiet(buffer)
    THEN [returnedAt |-> "energy check", correlated |-> FALSE, correlations |-> <<>>,
          bestPeriod |-> -1, result |-> NONE]
    ELSE LET corr == correlations(buffer)
             best == bestPeak(corr, sampleRate)
         IN  IF tooWeak(corr, best)
             THEN [returnedAt |-> "clarity check", correlated |-> TRUE, correlations |-> corr,
                   bestPeriod |-> best.bestPeriod, result |-> NONE]
             ELSE [returnedAt |-> "end", correlated |-> TRUE, correlations |-> corr,
                   bestPeriod |-> best.bestPeriod,
                   result |-> Div(Q(sampleRate, 1), refinedPeriod(corr, best.bestPeriod))]

detectPitch(buffer, sampleRate) == detectPitchRun(buffer, sampleRate).result

\* mutant: the energy loop squares the samples in place
bufferAfterDetectPitch_squared(buffer) == [i \in 1..Len(buffer) |-> buffer[i] * buffer[i]]

\* detectPitch only reads the buffer: the caller's buffer after the call
bufferAfterDetectPitch(buffer) == buffer

-----------------------------------------------------------------------------
(* pitch-detection.js: detectPitchYIN                                      *)

\* THRESHOLD of detectPitchYIN: 0.15
YIN_THRESHOLD == Q(3, 20)

\* the length of new Float32Array(bufferLength / 2)
yinLength(buffer) == Len(buffer) \div 2

\* step 1: the sum of (buffer[i] - buffer[i + tau])^2 over i < yinBuffer.length
difference(buffer, tau) ==
    SumOver([i \in 0..(yinLength(buffer) - 1) |->
                Mul(Sub(Sample(buffer, i), Sample(buffer, i + tau)),
                    Sub(Sample(buffer, i), Sample(buffer, i + tau)))],
            0, yinLength(buffer) - 1)

\* runningSum after the step of tau
RECURSIVE runningSum(_, _)
runningSum(buffer, tau) ==
    IF tau < 1 THEN Q(0, 1) ELSE Add(runningSum(buffer, tau - 1), difference(buffer, tau))

\* step 2: yinBuffer[0] = 1 and yinBuffer[tau] *= tau / runningSum
yinBuffer(buffer) ==
    [t \in 1..yinLength(buffer) |->
        IF t = 1
        THEN Q(1, 1)
        ELSE Mul(difference(buffer, t - 1), Div(Q(t - 1, 1), runningSum(buffer, t - 1)))]

\* mutant: no inner while, the first lag below the threshold is taken
descend_first(yin, tau) == tau

\* the inner while: walk down to the local minimum from tau
RECURSIVE descend(_, _)
descend(yin, tau) ==
    IF tau + 1 < Len(yin) /\ Lt(F32Get(yin, tau + 1), F32Get(yin, tau))
    THEN descend(yin, tau + 1)
    ELSE tau

\* step 3: the loop over tau from tau on; cur = [minTau, minVal]
RECURSIVE yinSearch(_, _, _, _)
yinSearch(yin, tau, end, cur) ==
    IF ~(tau < end)
    THEN cur
    ELSE IF Lt(F32Get(yin, tau), YIN_THRESHOLD)
         THEN [minTau |-> descend(yin, tau), minVal |-> F32Get(yin, descend(yin, tau))]
         ELSE IF Lt(F32Get(yin, tau), cur.minVal)
              THEN yinSearch(yin, tau + 1, end, [minTau |-> tau, minVal |-> F32Get(yin, tau)])
              ELSE yinSearch(yin, tau + 1, end, cur)

\* step 4: the parabolic interpolation around minTau
betterTau(yin, minTau) ==
    LET x0 == IF minTau < 1 THEN minTau ELSE minTau - 1
        x2 == IF minTau + 1 < Len(yin) THEN minTau + 1 ELSE minTau
        s0 == F32Get(yin, x0)
        s1 == F32Get(yin, minTau)
        s2 == F32Get(yin, x2)
    IN  IF x0 = minTau
        THEN IF Le(s1, s2) THEN Q(minTau, 1) ELSE Q(x2, 1)
        ELSE IF x2 = minTau
             THEN IF Le(s1, s0) THEN Q(minTau, 1) ELSE Q(x0, 1)
             ELSE Add(Q(minTau, 1),
                      Div(Sub(s2, s0),
                          Mul(Q(2, 1), Sub(Sub(Mul(Q(2, 1), s1), s2), s0))))

\* the locals of a call of detectPitchYIN and what it returns
detectPitchYINRun(buffer, sampleRate) ==
    LET yin == yinBuffer(buffer)
        found == yinSearch(yin, minPeriod(sampleRate), maxPeriod(sampleRate),
                           [minTau |-> -1, minVal |-> Q(1000, 1)])
    IN  IF found.minTau = -1 \/ Ge(found.minVal, YIN_THRESHOLD)
        THEN [yinBuffer |-> yin, minTau |-> found.minTau, result |-> NONE]
        ELSE [yinBuffer |-> yin, minTau |-> found.minTau,
              result |-> Div(Q(sampleRate, 1), betterTau(yin, found.minTau))]

detectPitchYIN(buffer, sampleRate) == detectPitchYINRun(buffer, sampleRate).result

\* detectPitchYIN only reads the buffer: the caller's buffer after the call
bufferAfterDetectPitchYIN(buffer) == buffer

-----------------------------------------------------------------------------
(* The calls of the estimators.  PitchInit draws an estimator, a window    *)
(* and a sample rate; the action evaluates the call.                       *)

\* every sequence of n samples drawn from the levels
RECURSIVE Waveforms(_, _)
Waveforms(levels, n) ==
    IF n = 0
    THEN { <<>> }
    ELSE { Append(w, x) : w \in Waveforms(levels, n - 1), x \in levels }

\* every window of up to half of MaxLen samples and one more, and every
\* longer waveform played at one level
Windows ==
    UNION { Waveforms(-MaxLevel..MaxLevel, n) : n \in 0..(MaxLen \div 2 + 1) }
    \cup { [i \in 1..Len(w) |-> g * w[i]] :
             w \in UNION { Waveforms({-1, 0, 1}, n) : n \in 0..MaxLen }, g \in 1..MaxLevel }

\* sample rates: the search covers lags 0..2 and 1..29
SampleRates == {150, 1500}

PitchArgs == { [buffer |-> w, sampleRate |-> r] : w \in Windows, r \in SampleRates }

\* the longest period of a tone, in samples
MaxTonePeriod == 23

\* sample i of a triangle wave of the period, quantized to a few levels
triangle(i, period) == (Abs(2 * (i % period) - period) \div 4) - (period \div 8)

\* two periods of the tone and two samples more: the longest lag of
\* detectPitchYIN's buffer is then the period
Tone(period) == [i \in 1..(2 * period + 2) |-> triangle(i - 1, period)]

\* each tone at the sample rates that make its period the last lag of the
\* search range, ceil(sampleRate / 50), or the one after it
ToneArgs ==
    { [buffer |-> Tone(period), sampleRate |-> 50 * (period - d)] :
        period \in (MaxTonePeriod - 3)..MaxTonePeriod, d \in {0, 1} }

PitchInit ==
    /\ PageLoaded
    /\ pc = "call"
    /\ ret = Null
    /\ locals = NoLocals
    /\ \/ op = "detectPitch" /\ args \in PitchArgs
       \/ op = "detectPitchYIN" /\ args \in PitchArgs \cup ToneArgs

CallDetectPitch ==
    /\ pc = "call" /\ op = "detectPitch"
    /\ LET run == detectPitchRun(args.buffer, args.sampleRate) IN
         /\ ret' = run.result
         /\ locals' = run
    /\ args' = [args EXCEPT !.buffer = bufferAfterDetectPitch(args.buffer)]
    /\ pc' = "return"
    /\ UNCHANGED op
    /\ UNCHANGED pageVars

CallDetectPitchYIN ==
    /\ pc = "call" /\ op = "detectPitchYIN"
    /\ LET run == detectPitchYINRun(args.buffer, args.sampleRate) IN
         /\ ret' = run.result
         /\ locals' = run
    /\ args' = [args EXCEPT !.buffer = bufferAfterDetectPitchYIN(args.buffer)]
    /\ pc' = "return"
    /\ UNCHANGED op
    /\ UNCHANGED pageVars

PitchNext ==
    \/ CallDetectPitch
    \/ CallDetectPitchYIN

PitchSpec == PitchInit /\ [][PitchNext]_vars

-----------------------------------------------------------------------------
(* main.js: the handlers.  Each action is one run of a handler or of a     *)
(* promise's continuation, which the browser runs to completion.           *)

\* mutant: noteFromFrequency(frequency) without the reference, which then
\* defaults to 440
referencePassed_default(g) == Num(440)

\* the second argument of noteFromFrequency in processAudio
referencePassed(g) == g.referenceFrequency

\* the analyzer gets samples from a microphone that is still connected
analyzerHasInput(g, b) == g.analyzer # Undefined /\ g.analyzer.id \in b.connections

\* what detectPitch can return for the analyzer's data: a disconnected
\* analyzer gives a window of zeros
estimatesOf(g, b) == IF analyzerHasInput(g, b) THEN Estimates ELSE { NoPitch }

\* the record of one run of processAudio: the estimate and the result of
\* noteFromFrequency, if it was called
tickOf(g, frequency) ==
    [frequency |-> frequency,
     result |-> IF frequency # NoPitch
                THEN noteFromFrequencyOf(frequency, referencePassed(g))
                ELSE Null]

\* the elements after processAudio: updateDisplay only if frequency !== -1
displayAfterTick(d, g, frequency) ==
    IF frequency # NoPitch
    THEN LET r == noteFromFrequencyOf(frequency, referencePassed(g)) IN
         updateDisplay(d, r.note, r.octave, frequency, r.cents)
    ELSE d

\* requestAnimationFrame(processAudio) at the end of processAudio
frameRequested(b) ==
    [b EXCEPT !.frames = @ \cup { b.nextFrameId }, !.nextFrameId = @ + 1]

\* stopListening on the module's variables
globalsAfterStop(g) ==
    [g EXCEPT !.microphone = IF Truthy(@) THEN Null ELSE @,
              !.animationFrameId = IF Truthy(@) THEN Null ELSE @,
              !.isListening = FALSE]

\* microphone.disconnect() and cancelAnimationFrame(animationFrameId)
browserAfterStop(g, b) ==
    [b EXCEPT !.connections = IF Truthy(g.microphone) THEN @ \ { g.microphone.id } ELSE @,
              !.frames = IF Truthy(g.animationFrameId) THEN @ \ { g.animationFrameId.v } ELSE @]

\* a click on the start button while listening: toggleListening stops
ClickStop ==
    /\ globals.isListening
    /\ globals' = globalsAfterStop(globals)
    /\ browser' = browserAfterStop(globals, browser)
    /\ dom' = [updateDisplay(dom, Null, Null, Null, 0) EXCEPT !.startButton = "Start Tuner"]
    /\ UNCHANGED lastTick
    /\ UNCHANGED visualization
    /\ UNCHANGED callVars

\* a click on the start button while not listening: toggleListening runs
\* startListening up to its await of getUserMedia
ClickStart ==
    /\ ~globals.isListening
    /\ browser.asked < MaxStreams
    /\ globals' = [globals EXCEPT !.audioContext = IF Truthy(@) THEN @ ELSE Object(0)]
    /\ browser' = [browser EXCEPT !.requests = @ + 1, !.asked = @ + 1]
    /\ UNCHANGED <<dom, lastTick>>
    /\ UNCHANGED visualization
    /\ UNCHANGED callVars

\* getUserMedia resolves: the rest of startListening, with its call of
\* processAudio, then the rest of toggleListening
GetUserMediaResolved ==
    /\ browser.requests > 0
    /\ browser.nextFrameId <= MaxFrames
    /\ LET id == browser.streams + 1
           g  == [globals EXCEPT !.microphone = Object(id), !.analyzer = Object(id),
                                 !.isListening = TRUE]
           b  == [browser EXCEPT !.requests = @ - 1, !.streams = id,
                                 !.connections = @ \cup { id }]
       IN  \E frequency \in estimatesOf(g, b) :
             /\ globals' = [g EXCEPT !.animationFrameId = Num(b.nextFrameId)]
             /\ browser' = frameRequested(b)
             /\ dom' = [displayAfterTick(dom, g, frequency) EXCEPT !.startButton = "Stop Tuner"]
             /\ lastTick' = tickOf(g, frequency)
    /\ UNCHANGED visualization
    /\ UNCHANGED callVars

\* mutant: the label is set before the await and is not set back
domAfterRejection_labelled(d) == [d EXCEPT !.alert = TRUE, !.startButton = "Stop Tuner"]

\* the catch of toggleListening: console.error and alert
domAfterRejection(d) == [d EXCEPT !.alert = TRUE]

\* getUserMedia rejects: startListening throws at its await, the catch of
\* toggleListening runs
GetUserMediaRejected ==
    /\ browser.requests > 0
    /\ browser' = [browser EXCEPT !.requests = @ - 1]
    /\ dom' = domAfterRejection(dom)
    /\ UNCHANGED <<globals, lastTick>>
    /\ UNCHANGED visualization
    /\ UNCHANGED callVars

\* a scheduled frame runs processAudio
AnimationFrame ==
    /\ browser.nextFrameId <= MaxFrames
    /\ \E id \in browser.frames, frequency \in estimatesOf(globals, browser) :
          /\ globals' = [globals EXCEPT !.animationFrameId = Num(browser.nextFrameId)]
          /\ browser' = frameRequested([browser EXCEPT !.frames = @ \ { id }])
          /\ dom' = displayAfterTick(dom, globals, frequency)
          /\ lastTick' = tickOf(globals, frequency)
    /\ UNCHANGED visualization
    /\ UNCHANGED callVars

\* the user leaves a text in the reference input: updateReferenceFrequency
ReferenceChanged ==
    /\ \E text \in InputTexts :
          /\ text # dom.referenceFreqInput
          /\ dom' = [dom EXCEPT !.referenceFreqInput = text]
          /\ globals' = [globals EXCEPT !.referenceFrequency = parseFloat(text)]
    /\ UNCHANGED <<browser, lastTick>>
    /\ UNCHANGED visualization
    /\ UNCHANGED callVars

MainInit ==
    /\ PageLoaded
    /\ op = "main" /\ args = <<>> /\ pc = "idle" /\ ret = Null /\ locals = NoLocals

MainNext ==
    \/ ClickStop
    \/ ClickStart
    \/ GetUserMediaResolved
    \/ GetUserMediaRejected
    \/ AnimationFrame
    \/ ReferenceChanged

MainSpec == MainInit /\ [][MainNext]_vars

-----------------------------------------------------------------------------
(* visualization.js: the particles.  A particle is kept by its lifespan;   *)
(* its position, velocity, colour and size do not decide how long it lives *)
(* or how many particles there are.                                        *)

\* frames drawn before the user selects the particles
MaxWaveformFrames == 1
\* frames drawn in all
MaxFrameCount == 262
\* bufferLength of the preview, and the bytes the data arrays are filled with
bufferLength == 128
Levels == {0, 128, 200, 255}

DataArrays == { [i \in 1..bufferLength |-> level] : level \in Levels }

\* what the analyzer gives frame after frame: the same data in every frame,
\* or two data arrays in turn
Signals == { <<a>> : a \in DataArrays } \cup { <<a, b>> : a, b \in DataArrays }

\* analyzer.getByteFrequencyData(dataArray) in the frame frameCount
dataArrayAt(signal, count) == signal[(count % Len(signal)) + 1]

\* new Particle(p)
Particle == [lifespan |-> 255]

\* Particle.update(audioValue), for the lifespan
update(particle, audioValue) == [particle EXCEPT !.lifespan = @ - 1]

\* mutant: a particle is dead below -1
isDead_late(particle) == particle.lifespan < -1

\* Particle.isDead()
isDead(particle) == particle.lifespan < 0

\* array.splice(start, deleteCount)
splice(array, start, deleteCount) ==
    SubSeq(array, 1, start) \o SubSeq(array, start + deleteCount + 1, Len(array))

particleCount == 100

\* initializeParticles(p)
initializeParticles == [i \in 1..particleCount |-> Particle]

\* the sum of the loop over dataArray, for the indices first..last (whole
\* numbers: the order of the additions does not change the sum)
RECURSIVE sumOfData(_, _, _)
sumOfData(dataArray, first, last) ==
    IF first > last THEN 0
    ELSE IF first = last THEN dataArray[first + 1]
    ELSE LET middle == (first + last) \div 2
         IN  sumOfData(dataArray, first, middle) + sumOfData(dataArray, middle + 1, last)

\* Math.floor(p.map(avgAudio, 0, 255, 0, 3)), avgAudio the mean of dataArray
newParticleCount(dataArray) ==
    (3 * sumOfData(dataArray, 0, Len(dataArray) - 1)) \div (255 * Len(dataArray))

\* particles.push(new Particle(p)), newParticleCount times, every 5 frames
withNewParticles(array, dataArray, count) ==
    IF count % 5 = 0
    THEN array \o [i \in 1..newParticleCount(dataArray) |-> Particle]
    ELSE array

\* the body of the loop for the index i: update the particle and splice it
\* out if it is dead
updateAt(array, dataArray, i) ==
    LET audioValue == dataArray[(i % Len(dataArray)) + 1]
        updated    == update(array[i + 1], audioValue)
        written    == [array EXCEPT ![i + 1] = updated]
    IN  IF isDead(updated) THEN splice(written, i, 1) ELSE written

\* the loop for i from last down to first, one index after the other: the
\* upper half of the range, then the lower half on what the upper half left
\* (Len(upper) is taken to have upper evaluated before the lower half)
RECURSIVE updateLoop(_, _, _, _)
updateLoop(array, dataArray, first, last) ==
    IF first > last THEN array
    ELSE IF first = last THEN updateAt(array, dataArray, first)
    ELSE LET middle == (first + last) \div 2
             upper  == updateLoop(array, dataArray, middle + 1, last)
         IN  IF Len(upper) = 0 THEN upper
             ELSE updateLoop(upper, dataArray, first, middle)

maxParticles == 200

\* the limit at the end of drawParticles
limited(array) ==
    IF Len(array) > maxParticles
    THEN splice(array, 0, Len(array) - maxParticles)
    ELSE array

\* drawParticles(p) on the particles, with the data and p.frameCount of the
\* frame; run records what the frame did
drawParticlesRun(array, dataArray, count) ==
    LET initialized == IF Len(array) = 0 THEN initializeParticles ELSE array
        pushed      == withNewParticles(initialized, dataArray, count)
        updated     == updateLoop(pushed, dataArray, 0, Len(pushed) - 1)
    IN  [particles |-> limited(updated),
         pushed    |-> Len(pushed) - Len(initialized),
         died      |-> Len(pushed) - Len(updated),
         cut       |-> Len(updated) - Len(limited(updated))]

SignalArgs == { [signal |-> signal] : signal \in Signals }

NoFrame == [pushed |-> 0, died |-> 0, cut |-> 0, everDied |-> FALSE, everCut |-> FALSE]

ParticleInit ==
    /\ PageLoaded
    /\ op = "draw" /\ pc = "draw" /\ ret = Null
    /\ args \in SignalArgs
    /\ locals = NoFrame

\* p.draw while the waveform is selected: the particles are not touched
DrawWaveform ==
    /\ visualization.currentVisualization = "waveform"
    /\ visualization.frameCount < MaxWaveformFrames
    /\ visualization' = [visualization EXCEPT !.frameCount = @ + 1]
    /\ UNCHANGED <<globals, dom, browser, lastTick>>
    /\ UNCHANGED callVars

\* the user selects the particles: changeVisualization('particles')
ChangeVisualization ==
    /\ visualization.currentVisualization = "waveform"
    /\ visualization' =
          [visualization EXCEPT
              !.currentVisualization = "particles",
              !.particles = IF Len(@) = 0 THEN initializeParticles ELSE @]
    /\ UNCHANGED <<globals, dom, browser, lastTick>>
    /\ UNCHANGED callVars

\* p.draw while the particles are selected: drawParticles(p)
DrawParticles ==
    /\ visualization.currentVisualization = "particles"
    /\ visualization.frameCount < MaxFrameCount
    /\ LET count == visualization.frameCount + 1
           run   == drawParticlesRun(visualization.particles,
                                     dataArrayAt(args.signal, count), count)
       IN  /\ visualization' = [visualization EXCEPT !.frameCount = count,
                                                     !.particles = run.particles]
           /\ locals' = [pushed |-> run.pushed, died |-> run.died, cut |-> run.cut,
                         everDied |-> locals.everDied \/ run.died > 0,
                         everCut |-> locals.everCut \/ run.cut > 0]
    /\ UNCHANGED <<op, args, pc, ret>>
    /\ UNCHANGED <<globals, dom, browser, lastTick>>

ParticleNext ==
    \/ DrawWaveform
    \/ ChangeVisualization
    \/ DrawParticles

ParticleSpec == ParticleInit /\ [][ParticleNext]_vars

-----------------------------------------------------------------------------
(* The claims.                                                             *)

Returns(o) == pc = "return" /\ op = o

\* C1: round trip: for every note name of the table, every integer octave
\* and every reference R, noteFromFrequency(frequencyFromNote(name, octave,
\* R), R) has note = name, octave = octave and cents = 0.
C1_RoundTrip ==
    Returns("roundTrip") =>
        /\ ret.note = args.note
        /\ ret.octave = Num(args.octave)
        /\ ret.cents = 0

\* C2: for every frequency > 0 and reference > 0, with n the rounded half
\* steps from the reference, noteFromFrequency returns the note name at index
\* (n + 57) mod 12 (non-negative modulus), one of the 12 names and never
\* undefined or null, and the octave floor((n + 57) / 12).
C2_NoteNameAndOctave ==
    (Returns("noteFromFrequency") /\ args.frequency.mant > 0) =>
        /\ ret.note = Str(NOTE_NAMES[((locals.halfStepsFromA4[1] + 57) % 12) + 1])
        /\ ret.note \in ValidNotes
        /\ ret.note # Undefined /\ ret.note # Null
        /\ ret.octave = Num((locals.halfStepsFromA4[1] + 57) \div 12)

\* C3: for every frequency > 0 and reference > 0, the cents returned by
\* noteFromFrequency is an integer in [-50, 50].
C3_CentsBound ==
    (Returns("noteFromFrequency") /\ args.frequency.mant > 0) =>
        ret.cents \in (-50)..50

\* a frequency half a half step above the reference comes back with -50 cents
C3_Witness ==
    /\ Returns("noteFromFrequency")
    /\ args.frequency = Hz(args.referenceFrequency, 100)
    /\ ret.cents = -50

C5_NoNoteForNonPositive ==
    (Returns("noteFromFrequency") /\ args.frequency.mant <= 0) =>
        /\ ret.note = Null
        /\ ret.octave = Null
        /\ locals.tableReads = 0

C5_Witness ==
    /\ Returns("noteFromFrequency")
    /\ args.frequency = Hz(-1, 0)
    /\ ret.note = Null

\* the two frequencies of a comparison, in order: 0 < f1 <= f2
ComparedInOrder ==
    /\ Returns("compare")
    /\ args.frequency.mant = args.frequency2.mant
    /\ args.frequency.exp <= args.frequency2.exp

\* the rounded half steps computed for f1 are at most those computed for f2
HalfStepsNeverDecrease ==
    ComparedInOrder => locals[1].halfStepsFromA4[1] <= locals[2].halfStepsFromA4[1]

\* 12 * octave + noteIndex for f1 is at most that for f2
NoteNumberNeverDecreases ==
    ComparedInOrder =>
        12 * ret[1].octave.v + locals[1].noteIndex[1]
            <= 12 * ret[2].octave.v + locals[2].noteIndex[1]

\* C6: monotonicity: for a fixed reference and frequencies 0 < f1 <= f2, the
\* rounded half steps n computed for f1 are at most those computed for f2;
\* equivalently, 12 * octave + noteIndex never decreases as the frequency
\* increases.
C6_Monotonic == HalfStepsNeverDecrease /\ NoteNumberNeverDecreases

C8_InvalidNoteThrows ==
    Returns("frequencyFromNote") =>
        /\ ret.threw <=> (args.note \notin ValidNotes)
        /\ ret.threw => ("value" \notin DOMAIN ret /\ ret.error = "Invalid note name")
        /\ ~ret.threw => ret.value.mant > 0

C8_Witness ==
    /\ Returns("frequencyFromNote")
    /\ args.note = Str("Bb")
    /\ ret.threw

\* C9: getClosestNote composes noteFromFrequency then frequencyFromNote: for
\* every frequency > 0 it returns a result, neither null nor an error, with
\* the note, octave and cents of noteFromFrequency and the frequency of
\* frequencyFromNote(note, octave, R); for frequency <= 0 it returns null.
C9_ClosestNoteComposes ==
    Returns("getClosestNote") =>
        IF args.frequency.mant > 0
        THEN /\ ~ret.threw
             /\ ret.value # Null
             /\ ret.value.note = noteFromFrequency(args.frequency, args.referenceFrequency).note
             /\ ret.value.octave = noteFromFrequency(args.frequency, args.referenceFrequency).octave
             /\ ret.value.cents = noteFromFrequency(args.frequency, args.referenceFrequency).cents
             /\ ret.value.frequency =
                    frequencyFromNote(ret.value.note, ret.value.octave.v,
                                      args.referenceFrequency).value
        ELSE ret = Returned(Null)

\* C10: getInstrumentReferences("guitar") returns exactly the strings E2, A2,
\* D3, G3, B3, E4 in that order, and of any identifier that is not in the
\* table it returns null.
C10_InstrumentLookup ==
    Returns("getInstrumentReferences") =>
        /\ args.instrument = "guitar" =>
              (ret.t = "object" /\ ret.strings = <<"E2", "A2", "D3", "G3", "B3", "E4">>)
        /\ args.instrument \notin {"guitar", "bass", "violin", "ukulele"} => ret = Null

-----------------------------------------------------------------------------
(* The claims about the estimators, under PitchSpec.                       *)

\* the sum of the squares of the levels of a window
RECURSIVE SumOfSquares(_)
SumOfSquares(w) == IF w = <<>> THEN 0 ELSE w[1] * w[1] + SumOfSquares(Tail(w))

\* the mean square of the samples (level / 32) is below 0.001
MeanSquareBelowThreshold(w) == 1000 * SumOfSquares(w) < 1024 * Len(w)

\* C11: silence rejection: for every non-empty window whose mean-square
\* energy is below 0.001, an all-zero window in particular, detectPitch
\* returns the no-pitch sentinel before any autocorrelation is computed.
C11_SilenceRejected ==
    (Returns("detectPitch") /\ Len(args.buffer) > 0 /\ MeanSquareBelowThreshold(args.buffer)) =>
        /\ ret = NONE
        /\ ~locals.correlated
        /\ locals.correlations = <<>>

\* a window that is quiet but not all zero
C11_Witness ==
    /\ Returns("detectPitch")
    /\ args.buffer = <<1, -1, 1, -1>>
    /\ ret = NONE
    /\ ~locals.correlated

\* C12: for an empty window and any positive sample rate detectPitch returns
\* the no-pitch sentinel.
C12_EmptyWindowIsNone ==
    (Returns("detectPitch") /\ Len(args.buffer) = 0) => ret = NONE

\* C13: whatever the window and the sample rate, detectPitch returns the
\* no-pitch sentinel -1 or a positive finite frequency, never zero, another
\* negative number, an infinity or NaN.
C13_SentinelOrPositive ==
    Returns("detectPitch") => (ret = NONE \/ (IsFinite(ret) /\ ret.n > 0))

\* a step that runs processAudio: it takes the next frame id
TickStep == browser'.nextFrameId # browser.nextFrameId

\* the reference frequencies of the page's range that the calls are tried with
ReferencesInRange == { Num(R) : R \in Refs }

C16_ReferenceInRange ==
    /\ globals.referenceFrequency.t = "number"
    /\ globals.referenceFrequency.v \in 420..460

\* the elements show the no-pitch state
ShowsNoPitch ==
    /\ dom.noteName = "--"
    /\ dom.octave = "-"
    /\ dom.frequencyDisplay = "0 Hz"
    /\ dom.centsDeviation = "0 cents"

\* the elements d show the note result r of the frequency
ShowsNote(d, frequency, r) ==
    /\ Str(d.noteName) = r.note
    /\ d.octave = ToString(r.octave.v)
    /\ d.frequencyDisplay = ToString(frequency.mant) \o ".00 Hz"
    /\ d.centsDeviation = ToString(r.cents) \o " cents"

\* C17: after each run of processAudio the display reflects that run's
\* estimate: the note name, octave, frequency and cents of the pitch found,
\* or the no-pitch state when the estimate was the sentinel.  Checked under
\* MainSpec.
C17_DisplayReflectsTick ==
    [][TickStep =>
         /\ lastTick'.frequency = NoPitch => ShowsNoPitch'
         /\ (/\ lastTick'.frequency.mant > 0
             /\ globals.referenceFrequency \in ReferencesInRange) =>
                ShowsNote(dom', lastTick'.frequency,
                          noteFromFrequency(lastTick'.frequency,
                                            globals.referenceFrequency.v))]_vars

\* the denominator leftCorr - 2 * centerCorr + rightCorr around a lag
InterpolationDenominator(corr, lag) ==
    Add(Sub(corr[lag], Mul(Q(2, 1), corr[lag + 1])), corr[lag + 2])

\* C18: in the parabolic interpolation, a zero denominator leftCorr -
\* 2 * centerCorr + rightCorr makes the refined period the integer peak lag,
\* and the frequency returned is sampleRate / peakLag.
C18_FlatPeakFallsBack ==
    (/\ Returns("detectPitch")
     /\ locals.returnedAt = "end"
     /\ locals.bestPeriod > 0 /\ locals.bestPeriod < Len(args.buffer) - 1
     /\ InterpolationDenominator(locals.correlations, locals.bestPeriod) = Q(0, 1)) =>
        ret = Q(args.sampleRate, locals.bestPeriod)

\* the lags of the search range [floor(sampleRate / 1500), ceil(sampleRate / 50)]
\* that lie inside the window
LagsInRange(w, sampleRate) ==
    { lag \in (sampleRate \div 1500)..(-((-sampleRate) \div 50)) : lag < Len(w) }

\* C19: for a window that passes the energy gate, the lag selected as the
\* peak lies in [floor(sampleRate / 1500), ceil(sampleRate / 50)] and its
\* autocorrelation is the maximum over every lag of that range, both ends
\* included.
C19_PeakIsMaximumOfRange ==
    (/\ Returns("detectPitch")
     /\ Len(args.buffer) > 0 /\ ~MeanSquareBelowThreshold(args.buffer)
     /\ locals.bestPeriod # -1) =>
        /\ locals.bestPeriod \in LagsInRange(args.buffer, args.sampleRate)
        /\ \A lag \in LagsInRange(args.buffer, args.sampleRate) :
              Le(locals.correlations[lag + 1], locals.correlations[locals.bestPeriod + 1])

\* the autocorrelation at the lag, divided by that at lag 0, is below 0.2
RatioBelowThreshold(corr, lag) == Lt(Div(corr[lag + 1], corr[1]), Q(1, 5))

\* C20: for a window that passes the energy gate, detectPitch returns the
\* sentinel whenever the maximum autocorrelation of the lag range divided by
\* the autocorrelation at lag 0 is below 0.2, also when no lag of the range
\* or of the window has a positive correlation, and returns a frequency only
\* when that ratio is at least 0.2.
C20_WeakPeakIsNone ==
    (/\ Returns("detectPitch")
     /\ Len(args.buffer) > 0 /\ ~MeanSquareBelowThreshold(args.buffer)) =>
        /\ (\A lag \in LagsInRange(args.buffer, args.sampleRate) :
                RatioBelowThreshold(locals.correlations, lag)) => ret = NONE
        /\ locals.returnedAt = "end" =>
              \E lag \in LagsInRange(args.buffer, args.sampleRate) :
                  ~RatioBelowThreshold(locals.correlations, lag)

\* a loud window whose best lag has a positive but weak correlation
C20_Witness ==
    /\ Returns("detectPitch")
    /\ ~MeanSquareBelowThreshold(args.buffer)
    /\ locals.returnedAt = "clarity check"
    /\ locals.bestPeriod > 0
    /\ ret = NONE

\* C21: detectPitchYIN obeys the silence contract of detectPitch: for every
\* window whose mean-square energy is below 0.001, an all-zero window
\* included, it returns the no-pitch sentinel.
C21_YINSilenceRejected ==
    (/\ Returns("detectPitchYIN")
     /\ Len(args.buffer) > 0 /\ MeanSquareBelowThreshold(args.buffer)) =>
        ret = NONE

\* C22: whenever detectPitchYIN returns a frequency, the lag it selected
\* before the interpolation lies in [floor(sampleRate / 1500),
\* ceil(sampleRate / 50)], the bounds of detectPitch's search, and the
\* frequency reported lies between 50 Hz and 1500 Hz.
C22_YINLagInBounds ==
    (Returns("detectPitchYIN") /\ ret # NONE) =>
        /\ locals.minTau \in (args.sampleRate \div 1500)..(-((-args.sampleRate) \div 50))
        /\ Le(Q(50, 1), ret) /\ Le(ret, Q(1500, 1))

\* the lags of the search range, inside the buffer of differences, whose
\* normalized difference is below 0.15
LagsBelowThreshold(yin, sampleRate) ==
    { tau \in (sampleRate \div 1500)..(-((-sampleRate) \div 50)) :
        tau < Len(yin) /\ Lt(yin[tau + 1], Q(3, 20)) }

\* the smallest of a set of lags that is not empty
FirstLag(lags) == CHOOSE tau \in lags : \A other \in lags : tau <= other

\* the differences fall from the lag first to the lag last and do not fall
\* after it
DescentEnds(yin, first, last) ==
    /\ first <= last
    /\ \A tau \in first..(last - 1) : Lt(yin[tau + 2], yin[tau + 1])
    /\ ~(last + 1 < Len(yin) /\ Lt(yin[last + 2], yin[last + 1]))

\* C23: detectPitchYIN returns a frequency only if some lag of the search
\* range has a normalized difference below 0.15; the lag it uses is then the
\* local minimum reached by descending from the first such lag; and if no
\* lag of the range is below the threshold it returns the sentinel, although
\* it recorded the lag of the smallest value.
C23_YINFirstDip ==
    Returns("detectPitchYIN") =>
        LET below == LagsBelowThreshold(locals.yinBuffer, args.sampleRate) IN
        /\ ret # NONE =>
              /\ below # {}
              /\ DescentEnds(locals.yinBuffer, FirstLag(below), locals.minTau)
        /\ below = {} => ret = NONE

\* a frequency returned for a lag reached by descending from the first lag
\* below the threshold
C23_Witness ==
    /\ Returns("detectPitchYIN")
    /\ ret # NONE
    /\ LagsBelowThreshold(locals.yinBuffer, args.sampleRate) # {}
    /\ locals.minTau > FirstLag(LagsBelowThreshold(locals.yinBuffer, args.sampleRate))

\* the sentinel returned with the lag of the smallest value recorded
YINSmallestLagRecorded ==
    /\ Returns("detectPitchYIN")
    /\ LagsBelowThreshold(locals.yinBuffer, args.sampleRate) = {}
    /\ locals.minTau # -1
    /\ ret = NONE

-----------------------------------------------------------------------------
(* Claims about the listening loop of main.js, checked under MainSpec.     *)

\* C24: in every interleaving of clicks on the start button and of
\* resolutions of the microphone permission, at most one processAudio loop
\* is active at any time (at most one frame is pending), and
\* animationFrameId identifies the pending frame.
C24_SingleLoop ==
    /\ Cardinality(browser.frames) <= 1
    /\ \A id \in browser.frames : globals.animationFrameId = Num(id)

\* stopListening has completed and no startListening has succeeded since:
\* only stopListening sets microphone to null, and the next successful
\* startListening sets it to a new source node
Stopped == globals.microphone = Null

\* C25: once stopListening has completed, isListening is false, microphone
\* and animationFrameId are null and the display is in its reset state; and
\* until a later startListening succeeds, no run of processAudio happens and
\* the display stays as it is.
C25_QuietAfterStop ==
    [][globals'.microphone = Null =>
          /\ ~globals'.isListening
          /\ globals'.animationFrameId = Null
          /\ ShowsNoPitch'
          /\ globals.microphone = Null => ~TickStep]_vars

\* a step in which a pending getUserMedia is rejected
RejectedStep ==
    /\ browser'.requests < browser.requests
    /\ browser'.streams = browser.streams

StartedAgainAfterRejection ==
    /\ dom.alert
    /\ browser.asked = 2 /\ browser.requests = 1 /\ browser.streams = 0

-----------------------------------------------------------------------------
(* A numerical claim about noteFromFrequency, checked under Spec.          *)

\* 1200 * log2(frequency / referenceFrequency) rounded to the nearest
\* integer, halves up, from its floor in half cents
RoundedCents(frequency, referenceFrequency) ==
    MathRound(Log2HalfCents(frequency, referenceFrequency), 2)

-----------------------------------------------------------------------------
(* A claim about the particles, checked under ParticleSpec.                *)

\* C28: after every frame of drawParticles, whatever the audio data and the
\* frame count, the list holds at most 200 particles and holds no particle
\* whose lifespan is below 0.
C28_ParticlesBounded ==
    [][visualization'.particles # visualization.particles
         \/ visualization'.frameCount # visualization.frameCount =>
          /\ Len(visualization'.particles) <= 200
          /\ \A i \in 1..Len(visualization'.particles) :
                visualization'.particles[i].lifespan >= 0]_vars

\* a frame that took dead particles out and left others, in a run in which
\* the limit has cut the list
C28_Witness ==
    /\ visualization.currentVisualization = "particles"
    /\ locals.died > 0
    /\ locals.everCut
    /\ Len(visualization.particles) \in 1..200
    /\ \A i \in 1..Len(visualization.particles) : visualization.particles[i].lifespan >= 0

-----------------------------------------------------------------------------
(* What does hold where a claim above fails.                               *)

\* the round trip from octave 0 upwards
RoundTripFromOctave0 ==
    (Returns("roundTrip") /\ args.octave >= 0) =>
        ret = [note |-> args.note, octave |-> Num(args.octave), cents |-> 0]

\* the name and octave of every frequency from C0 upwards (n + 57 >= 0)
NoteNameFromC0 ==
    (Returns("noteFromFrequency") /\ args.frequency.mant > 0
        /\ locals.halfStepsFromA4[1] + 57 >= 0) =>
        /\ ret.note = Str(NOTE_NAMES[((locals.halfStepsFromA4[1] + 57) % 12) + 1])
        /\ ret.octave = Num((locals.halfStepsFromA4[1] + 57) \div 12)

\* getClosestNote from C0 upwards, and for the non-positive frequencies
ClosestNoteFromC0 ==
    (Returns("getClosestNote") /\ (args.frequency.mant > 0 => locals.halfStepsFromA4[1] + 57 >= 0))
        => C9_ClosestNoteComposes

\* the lookup of every identifier that Object.prototype does not define
InstrumentLookupOwn ==
    (Returns("getInstrumentReferences") /\ args.instrument \notin ObjectPrototypeProperties)
        => C10_InstrumentLookup

\* the peak detectPitch selects is the maximum over the lags below
\* ceil(sampleRate / 50): the range without its upper end
PeakIsMaximumBelowMaxPeriod ==
    (/\ Returns("detectPitch")
     /\ Len(args.buffer) > 0 /\ ~MeanSquareBelowThreshold(args.buffer)
     /\ locals.bestPeriod # -1) =>
        /\ locals.bestPeriod \in LagsInRange(args.buffer, args.sampleRate)
        /\ \A lag \in LagsInRange(args.buffer, args.sampleRate) \ { -((-args.sampleRate) \div 50) } :
              Le(locals.correlations[lag + 1], locals.correlations[locals.bestPeriod + 1])

\* a run of processAudio that finds a pitch shows its note, under a
\* reference frequency of the range
DisplayReflectsPitchFound ==
    [][(/\ TickStep
        /\ lastTick'.frequency.mant > 0
        /\ globals.referenceFrequency \in ReferencesInRange) =>
            ShowsNote(dom', lastTick'.frequency,
                      noteFromFrequency(lastTick'.frequency,
                                        globals.referenceFrequency.v))]_vars

\* detectPitchYIN returns the sentinel for a window of zeros, whose
\* normalized differences are all 0 / 0
YINZeroWindowIsNone ==
    (/\ Returns("detectPitchYIN")
     /\ \A i \in 1..Len(args.buffer) : args.buffer[i] = 0) =>
        ret = NONE

\* the lag detectPitchYIN selects is never below the search range, and the
\* lag its descent starts from is inside the range
YINLagFromRange ==
    (Returns("detectPitchYIN") /\ ret # NONE) =>
        /\ locals.minTau >= args.sampleRate \div 1500
        /\ LagsBelowThreshold(locals.yinBuffer, args.sampleRate) # {}
        /\ FirstLag(LagsBelowThreshold(locals.yinBuffer, args.sampleRate))
              < -((-args.sampleRate) \div 50)

\* what stopListening establishes in the step it runs in
StopPostcondition ==
    [][(globals.isListening /\ ~globals'.isListening) =>
          /\ globals'.microphone = Null
          /\ globals'.animationFrameId = Null
          /\ ShowsNoPitch'
          /\ dom'.startButton = "Start Tuner"]_vars

\* with a single request for the microphone at a time there is one loop
SingleLoopOfSingleRequest ==
    browser.streams <= 1 =>
        /\ Cardinality(browser.frames) <= 1
        /\ \A id \in browser.frames : globals.animationFrameId = Num(id)

\* a page that is not listening shows 'Start Tuner'
LabelOfNotListening == ~globals.isListening => dom.startButton = "Start Tuner"

\* while only one request for the microphone has been granted, nothing runs
\* between a stop and the next successful start
QuietAfterStopOfSingleRequest ==
    [][(browser.streams <= 1 /\ globals.microphone = Null /\ globals'.microphone = Null) =>
          /\ ~TickStep
          /\ ~globals'.isListening
          /\ globals'.animationFrameId = Null
          /\ ShowsNoPitch']_vars

====
